---- MODULE Spec2Model ----
(***************************************************************************)
(* Gesture-driven scene-state controller and particle animation engine of  *)
(* src/index.tsx: the global STATE, the particle population, the upload    *)
(* callback, initVision, the detection loop predictWebcam and the render   *)
(* loop animate.                                                           *)
(*                                                                         *)
(* Numbers.  Landmark coordinates are hundredths of the normalized camera  *)
(* space (0.05 is 5).  Positions and scales are integers in units of       *)
(* 1/Unit, Unit = 2 * LerpDen^MotionTicks, so that MotionTicks successive  *)
(* lerps by 1/LerpDen, also toward 4.5 times a scale or 1.5 times a        *)
(* position, are exact; angles are in units of 1/(1000 * Unit) radian.     *)
(* A position Vector3 is represented by its z component           *)
(* (Vector3.lerp acts on every component alike), a scale by one scalar, an *)
(* orientation by its Euler angles [x, y, z].  The dust cloud and          *)
(* mainGroup.rotation are renderer outputs that no controller or particle  *)
(* state depends on; they are not represented.                             *)
(***************************************************************************)
EXTENDS Integers, Sequences, FiniteSets, TLC

VARIABLES
    mode,            \* STATE.mode
    targetPhoto,     \* STATE.targetPhoto: the id of a particle, or Null
    handRotation,    \* STATE.handRotation: [x, y]
    isLoaded,        \* STATE.isLoaded
    particles,       \* the particles array
    loading,         \* uploads between the change event and the texture callback
    uploads,         \* number of files chosen so far
    visionPc,        \* where initVision stands
    handLandmarker,  \* TRUE once handLandmarker is assigned
    predictQueued,   \* a call of predictWebcam is pending (loadeddata or rAF)
    loaded,          \* the video's loadeddata event has fired
    videoTime,       \* video.currentTime
    lastVideoTime,   \* lastVideoTime
    animateQueued,   \* a call of animate is pending (rAF)
    ticks,           \* number of render ticks so far
    lastOp,          \* the handler that ran last
    det              \* what the last call of predictWebcam saw and computed

vars == <<mode, targetPhoto, handRotation, isLoaded, particles, loading, uploads,
          visionPc, handLandmarker, predictQueued, loaded, videoTime,
          lastVideoTime, animateQueued, ticks, lastOp, det>>

----------------------------------------------------------------------------
(* Bounds *)

MaxTicks == 1
MaxUploads == 1
MaxVideoTime == 1
NumOrnaments == 1

\* The horizon of MotionSpec, the specification of the integrator's claims
\* (at least MaxTicks, so that Unit serves both)
MotionTicks == 3
MotionFrames == 2

----------------------------------------------------------------------------
(* Program constants *)

Null == 0

PinchThreshold == 5
FistThreshold == 25
OpenThreshold == 40
NumTips == 4
PalmCentre == 50
YawGain == 2
PitchGain == 1

LerpNum == 1
LerpDen == 20

RECURSIVE Pow(_, _)
Pow(b, n) == IF n = 0 THEN 1 ELSE b * Pow(b, n - 1)

Unit == 2 * Pow(LerpDen, MotionTicks)

FocusZ == 35 * Unit

\* targetScale.multiplyScalar(4.5)
FocusScale(s) == (s * 9) \div 2

\* targetPos.copy(this.scatterPos).multiplyScalar(1.5)
PushBackNone(z) == z
PushBack(z) == (z * 3) \div 2

----------------------------------------------------------------------------
(* Random draws, taken from small sets *)

\* z of a point of the shell of radius 8..20
ScatterZ == {12 * Unit}
\* z of a point of the cone spiral, jitter included
TreeZ == {6 * Unit}
\* treeRot: the yaw -angle of the cone spiral, half a radian
TreeRot == {[x |-> 0, y |-> -500 * Unit, z |-> 0]}
\* scatterVel: each component in [-0.01, 0.01); here 0, 0.005 and -0.008
ScatterVel == {[x |-> 0, y |-> 5 * Unit, z |-> -8 * Unit]}
\* The rotation the constructor sets: (random * PI, random * PI, 0); here
\* 0 and one radian
StartRotation == {[x |-> 0, y |-> 1000 * Unit, z |-> 0]}
\* Every orientation drawn is a rotation about the y axis, and so is every
\* orientation reached from them: Slerp below is exact for these.

\* What calculatePositions draws, and what the constructor draws before it
Layouts == {[scatterPos |-> sz, treePos |-> tz, treeRot |-> tr] :
               sz \in ScatterZ, tz \in TreeZ, tr \in TreeRot}
Spins == {[scatterVel |-> sv, rotation |-> r0] :
             sv \in ScatterVel, r0 \in StartRotation}

\* The values of dt = clock.getDelta(), in milliseconds
Deltas == {16, 33}

\* type of a mesh built by the ornament loop ('CANDY' differs from it in
\* treeRot alone)
OrnamentTypes == {"ORNAMENT"}

----------------------------------------------------------------------------
(* Particle *)

Identity == [x |-> 0, y |-> 0, z |-> 0]

CalculatePositions(p, lay) ==
    [p EXCEPT !.scatterPos = lay.scatterPos, !.treePos = lay.treePos,
              !.treeRot = lay.treeRot, !.calls = @ + 1]

NewParticle(id, type, spin, lay) ==
    LET fresh == [id |-> id, type |-> type, baseScale |-> Unit,
                  treePos |-> 0, treeRot |-> Identity, scatterPos |-> 0,
                  scatterVel |-> spin.scatterVel,
                  position |-> 0, rotation |-> Identity, scale |-> Unit,
                  calls |-> 0]
        laid == CalculatePositions(fresh, lay)
    IN  [laid EXCEPT !.position = laid.scatterPos, !.rotation = spin.rotation]

\* Mutant of Lerp: a tenth of the way for a twentieth
LerpTenth(a, b) == a + ((b - a) * 2 * LerpNum) \div LerpDen

Lerp(a, b) == a + ((b - a) * LerpNum) \div LerpDen

\* Quaternion.slerp(qTarget, 0.05) between two rotations about one common
\* axis, less than half a turn apart: the angle is interpolated linearly
Slerp(r, q) == [x |-> Lerp(r.x, q.x), y |-> Lerp(r.y, q.y), z |-> Lerp(r.z, q.z)]

\* Mutant of Update: the SCATTER branch falls through to the scale lerp
UpdateScaleInScatter(p, m, t, dt) ==
    IF m = "SCATTER"
    THEN [p EXCEPT !.rotation.x = @ + p.scatterVel.x,
                   !.rotation.y = @ + p.scatterVel.y,
                   !.position = Lerp(@, p.scatterPos),
                   !.scale = Lerp(@, p.baseScale)]
    ELSE LET isTarget == (m = "FOCUS" /\ p.id = t)
             targetPos == IF m = "TREE" THEN p.treePos
                          ELSE IF isTarget THEN FocusZ
                          ELSE PushBack(p.scatterPos)
             targetScale == IF isTarget THEN FocusScale(p.baseScale)
                            ELSE p.baseScale
             targetRot == IF m = "TREE" THEN p.treeRot ELSE Identity
         IN  [p EXCEPT !.position = Lerp(@, targetPos),
                       !.scale = Lerp(@, targetScale),
                       !.rotation = Slerp(@, targetRot)]

\* update(dt); dt is not read
Update(p, m, t, dt) ==
    IF m = "SCATTER"
    THEN [p EXCEPT !.rotation.x = @ + p.scatterVel.x,
                   !.rotation.y = @ + p.scatterVel.y,
                   !.position = Lerp(@, p.scatterPos)]
    ELSE LET isTarget == (m = "FOCUS" /\ p.id = t)
             targetPos == IF m = "TREE" THEN p.treePos
                          ELSE IF isTarget THEN FocusZ
                          ELSE PushBack(p.scatterPos)
             targetScale == IF isTarget THEN FocusScale(p.baseScale)
                            ELSE p.baseScale
             targetRot == IF m = "TREE" THEN p.treeRot ELSE Identity
         IN  [p EXCEPT !.position = Lerp(@, targetPos),
                       !.scale = Lerp(@, targetScale),
                       !.rotation = Slerp(@, targetRot)]

\* Mutant of AddMesh: the new particle is put in front (unshift for push)
AddMeshFront(ps, type, spin, lay) ==
    <<NewParticle(Len(ps) + 1, type, spin, lay)>> \o ps

AddMesh(ps, type, spin, lay) ==
    Append(ps, NewParticle(Len(ps) + 1, type, spin, lay))

AddPhotoToScene(ps, spin, lay1, lay2) ==
    LET qs == AddMesh(ps, "PHOTO", spin, lay1)
        n == Len(qs)
    IN  [qs EXCEPT ![n] = CalculatePositions(qs[n], lay2)]

RECURSIVE Ornaments(_)
Ornaments(n) ==
    IF n = 0 THEN {<<>>}
    ELSE UNION {{AddMesh(ps, ty, spin, lay) :
                    ty \in OrnamentTypes, spin \in Spins, lay \in Layouts} :
                ps \in Ornaments(n - 1)}

InitialPopulations ==
    UNION {{AddPhotoToScene(ps, spin, lay1, lay2) :
                spin \in Spins, lay1 \in Layouts, lay2 \in Layouts} :
           ps \in Ornaments(NumOrnaments)}

----------------------------------------------------------------------------
(* Hand landmarks: what handLandmarker.detectForVideo returns *)

Abs(n) == IF n < 0 THEN -n ELSE n

Max(a, b) == IF a < b THEN b ELSE a

\* Math.hypot, on the differences whose hypotenuse is a whole number
Hypot(dx, dy) ==
    CHOOSE r \in Max(Abs(dx), Abs(dy))..(Abs(dx) + Abs(dy)) : r * r = dx * dx + dy * dy

Pt(x, y) == [x |-> x, y |-> y]

WristIdx == 0
ThumbIdx == 4
IndexIdx == 8
PalmIdx == 9
MiddleIdx == 12
RingIdx == 16
PinkyIdx == 20

LandmarkIdx == {WristIdx, ThumbIdx, IndexIdx, PalmIdx, MiddleIdx, RingIdx, PinkyIdx}

\* A hand with the wrist at (50, 90), the four fingertips above it at a mean
\* distance of reach (two of them one hundredth nearer and farther), the
\* thumb tip at offset off from the index tip, and the palm centre at palm.
MkHand(off, reach, palm) ==
    [i \in LandmarkIdx |->
        CASE i = WristIdx  -> Pt(50, 90)
          [] i = IndexIdx  -> Pt(50, 90 - reach)
          [] i = MiddleIdx -> Pt(50, 90 - reach - 1)
          [] i = RingIdx   -> Pt(50, 90 - reach + 1)
          [] i = PinkyIdx  -> Pt(50 + reach, 90)
          [] i = ThumbIdx  -> Pt(50 + off.x, 90 - reach + off.y)
          [] i = PalmIdx   -> palm]

ThumbOffsets == {Pt(0, 3), Pt(3, 4)}
TipReach == {20, 25, 40, 45}
Palms == {Pt(50, 50), Pt(70, 30)}

Hands == {MkHand(off, reach, palm) :
             off \in ThumbOffsets, reach \in TipReach, palm \in Palms}

NoHand == <<>>

\* result.landmarks: empty, or the landmarks of one hand (numHands: 1)
Results == {NoHand} \cup {<<h>> : h \in Hands}

----------------------------------------------------------------------------
(* predictWebcam: gesture recognition and the controller *)

PinchDist(lm) == Hypot(lm[ThumbIdx].x - lm[IndexIdx].x, lm[ThumbIdx].y - lm[IndexIdx].y)

TipDist(lm, i) == Hypot(lm[i].x - lm[WristIdx].x, lm[i].y - lm[WristIdx].y)

\* avgTipDist before the division by 4
TipSum(lm) == TipDist(lm, IndexIdx) + TipDist(lm, MiddleIdx)
              + TipDist(lm, RingIdx) + TipDist(lm, PinkyIdx)

\* Mutant of Classify: the pinch comparison is not strict
ClassifyInclusive(pinchDist, tipSum) ==
    IF pinchDist <= PinchThreshold THEN "PINCH"
    ELSE IF tipSum < NumTips * FistThreshold THEN "FIST"
    ELSE IF tipSum > NumTips * OpenThreshold THEN "OPEN"
    ELSE "AMBIGUOUS"

\* The if / else-if chain on pinchDist and avgTipDist = tipSum / 4
Classify(pinchDist, tipSum) ==
    IF pinchDist < PinchThreshold THEN "PINCH"
    ELSE IF tipSum < NumTips * FistThreshold THEN "FIST"
    ELSE IF tipSum > NumTips * OpenThreshold THEN "OPEN"
    ELSE "AMBIGUOUS"

\* Mutant of ModeAfter: a FIST does not leave FOCUS
ModeAfterSticky(g, m) ==
    CASE g = "PINCH" -> "FOCUS"
      [] g = "FIST"  -> IF m = "FOCUS" THEN m ELSE "TREE"
      [] g = "OPEN"  -> "SCATTER"
      [] OTHER       -> m

ModeAfter(g, m) ==
    CASE g = "PINCH" -> "FOCUS"
      [] g = "FIST"  -> "TREE"
      [] g = "OPEN"  -> "SCATTER"
      [] OTHER       -> m

\* Mutant of Photos: the filter on the type is missing
PhotosUnfiltered(ps) == ps

\* particles.filter(p => p.type === 'PHOTO')
Photos(ps) == SelectSeq(ps, LAMBDA p : p.type = "PHOTO")

\* The values Math.floor(Math.random() * photos.length) can take, from 1
PickRange(ps) == 1..Len(Photos(ps))

\* Mutant of TargetAfter: every PINCH draws a photo anew
TargetAfterReroll(g, t, ps, k) ==
    CASE g = "PINCH" -> IF Len(Photos(ps)) > 0 THEN Photos(ps)[k].id ELSE t
      [] g \in {"FIST", "OPEN"} -> Null
      [] OTHER -> t

\* k is the draw; it is read only when there is a photo
TargetAfter(g, t, ps, k) ==
    CASE g = "PINCH" ->
            IF t = Null
            THEN IF Len(Photos(ps)) > 0 THEN Photos(ps)[k].id ELSE t
            ELSE t
      [] g \in {"FIST", "OPEN"} -> Null
      [] OTHER -> t

\* Mutant of PointerSignal: both axes get the horizontal gain
PointerSignalSymmetric(palm) ==
    [y |-> (palm.x - PalmCentre) * YawGain, x |-> (palm.y - PalmCentre) * YawGain]

PointerSignal(palm) ==
    [y |-> (palm.x - PalmCentre) * YawGain, x |-> (palm.y - PalmCentre) * PitchGain]

\* Mutant of Detect: a lost hand resets the interaction state
DetectResetOnLoss(result, m, t, hr, ps, k) ==
    IF Len(result) > 0
    THEN LET lm == result[1]
             g == Classify(PinchDist(lm), TipSum(lm))
         IN  [mode |-> ModeAfter(g, m),
              targetPhoto |-> TargetAfter(g, t, ps, k),
              handRotation |-> PointerSignal(lm[PalmIdx])]
    ELSE [mode |-> "TREE", targetPhoto |-> Null, handRotation |-> [x |-> 0, y |-> 0]]

\* The body of "if (result.landmarks && result.landmarks.length > 0)"
Detect(result, m, t, hr, ps, k) ==
    IF Len(result) > 0
    THEN LET lm == result[1]
             g == Classify(PinchDist(lm), TipSum(lm))
         IN  [mode |-> ModeAfter(g, m),
              targetPhoto |-> TargetAfter(g, t, ps, k),
              handRotation |-> PointerSignal(lm[PalmIdx])]
    ELSE [mode |-> m, targetPhoto |-> t, handRotation |-> hr]

\* What the last detection saw and computed (the locals of predictWebcam),
\* and the mode and target it started from
Seen(result, m, t) ==
    IF Len(result) > 0
    THEN LET lm == result[1]
         IN  [kind |-> "hand", pinchDist |-> PinchDist(lm), tipSum |-> TipSum(lm),
              palm |-> lm[PalmIdx],
              gesture |-> Classify(PinchDist(lm), TipSum(lm)),
              prevMode |-> m, prevTarget |-> t]
    ELSE [kind |-> "nohand", pinchDist |-> 0, tipSum |-> 0, palm |-> Pt(0, 0),
          gesture |-> "NONE", prevMode |-> m, prevTarget |-> t]

NotRun == [kind |-> "none", pinchDist |-> 0, tipSum |-> 0, palm |-> Pt(0, 0),
           gesture |-> "NONE", prevMode |-> "TREE", prevTarget |-> Null]

----------------------------------------------------------------------------
(* Initial state: the module has run top to bottom, up to the calls of     *)
(* initVision() and animate() at its end.  initVision runs to its first    *)
(* await; animate's first call is the first render tick, taken by Animate. *)

Init ==
    /\ mode = "TREE"
    /\ targetPhoto = Null
    /\ handRotation = [x |-> 0, y |-> 0]
    /\ isLoaded = FALSE
    /\ particles \in InitialPopulations
    /\ loading = 0
    /\ uploads = 0
    /\ visionPc = "resolver"
    /\ handLandmarker = FALSE
    /\ predictQueued = FALSE
    /\ loaded = FALSE
    /\ videoTime = 0
    /\ lastVideoTime = -1
    /\ animateQueued = TRUE
    /\ ticks = 0
    /\ lastOp = "init"
    /\ det = NotRun

----------------------------------------------------------------------------
(* Upload *)

\* fileInput's change handler: without a file it returns; with one, the
\* FileReader and the TextureLoader are started
FileChange ==
    /\ uploads < MaxUploads
    /\ \E hasFile \in BOOLEAN :
          IF hasFile
          THEN loading' = loading + 1 /\ uploads' = uploads + 1
          ELSE UNCHANGED <<loading, uploads>>
    /\ lastOp' = "change"
    /\ UNCHANGED <<mode, targetPhoto, handRotation, isLoaded, particles, visionPc,
                   handLandmarker, predictQueued, loaded, videoTime, lastVideoTime,
                   animateQueued, ticks, det>>

\* The TextureLoader callback: addPhotoToScene(t); STATE.mode = 'TREE'
TextureLoaded ==
    /\ loading > 0
    /\ \E spin \in Spins, lay1 \in Layouts, lay2 \in Layouts :
          particles' = AddPhotoToScene(particles, spin, lay1, lay2)
    /\ mode' = "TREE"
    /\ loading' = loading - 1
    /\ lastOp' = "upload"
    /\ UNCHANGED <<targetPhoto, handRotation, isLoaded, uploads, visionPc,
                   handLandmarker, predictQueued, loaded, videoTime, lastVideoTime,
                   animateQueued, ticks, det>>

----------------------------------------------------------------------------
(* initVision: one step per await; each awaited promise resolves or rejects *)

\* Mutant of VisionFailed: the catch block starts the detection loop anyway
VisionFailedStartsLoop ==
    /\ visionPc' = "failed"
    /\ isLoaded' = TRUE
    /\ predictQueued' = TRUE
    /\ UNCHANGED handLandmarker

\* The catch block
VisionFailed ==
    /\ visionPc' = "failed"
    /\ isLoaded' = TRUE
    /\ UNCHANGED <<handLandmarker, predictQueued>>

InitVision ==
    /\ visionPc \in {"resolver", "landmarker", "camera"}
    /\ \E ok \in BOOLEAN :
          IF ~ok THEN VisionFailed
          ELSE CASE visionPc = "resolver" ->
                      /\ visionPc' = "landmarker"
                      /\ UNCHANGED <<handLandmarker, isLoaded, predictQueued>>
                 [] visionPc = "landmarker" ->
                      /\ visionPc' = "camera"
                      /\ handLandmarker' = TRUE
                      /\ UNCHANGED <<isLoaded, predictQueued>>
                 [] visionPc = "camera" ->
                      /\ visionPc' = "ready"
                      /\ isLoaded' = TRUE
                      /\ UNCHANGED <<handLandmarker, predictQueued>>
    /\ lastOp' = "vision"
    /\ UNCHANGED <<mode, targetPhoto, handRotation, particles, loading, uploads,
                   loaded, videoTime, lastVideoTime, animateQueued, ticks, det>>

\* The video element fires loadeddata once the stream delivers its first
\* frame; predictWebcam is its listener
LoadedData ==
    /\ visionPc = "ready"
    /\ ~loaded
    /\ loaded' = TRUE
    /\ predictQueued' = TRUE
    /\ lastOp' = "loadeddata"
    /\ UNCHANGED <<mode, targetPhoto, handRotation, isLoaded, particles, loading,
                   uploads, visionPc, handLandmarker, videoTime, lastVideoTime,
                   animateQueued, ticks, det>>

\* The camera stream delivers a later frame: video.currentTime advances
VideoFrameUpTo(n) ==
    /\ loaded
    /\ videoTime < n
    /\ videoTime' = videoTime + 1
    /\ lastOp' = "frame"
    /\ UNCHANGED <<mode, targetPhoto, handRotation, isLoaded, particles, loading,
                   uploads, visionPc, handLandmarker, predictQueued, loaded,
                   lastVideoTime, animateQueued, ticks, det>>

VideoFrame == VideoFrameUpTo(MaxVideoTime)

----------------------------------------------------------------------------
(* The detection loop.  A call that finds a new video timestamp is a       *)
(* detection tick (lastOp "predict"); any other call only re-queues itself *)
(* (lastOp "skip").                                                        *)

\* Mutant of NewFrame: the timestamp is not compared
NewFrameAlways(hl, vt, lvt) == hl

\* if (handLandmarker && video.currentTime !== lastVideoTime)
NewFrame(hl, vt, lvt) == hl /\ vt # lvt

\* predictWebcam, with detectForVideo answering from the set rs
PredictFrom(rs) ==
    /\ predictQueued
    /\ IF NewFrame(handLandmarker, videoTime, lastVideoTime)
       THEN \E result \in rs :
            \E k \in IF PickRange(particles) = {} THEN {1} ELSE PickRange(particles) :
               LET d == Detect(result, mode, targetPhoto, handRotation, particles, k)
               IN  /\ lastVideoTime' = videoTime
                   /\ mode' = d.mode
                   /\ targetPhoto' = d.targetPhoto
                   /\ handRotation' = d.handRotation
                   /\ det' = Seen(result, mode, targetPhoto)
                   /\ lastOp' = "predict"
       ELSE /\ lastOp' = "skip"
            /\ UNCHANGED <<lastVideoTime, mode, targetPhoto, handRotation, det>>
    /\ predictQueued' = TRUE
    /\ UNCHANGED <<isLoaded, particles, loading, uploads, visionPc, handLandmarker,
                   loaded, videoTime, animateQueued, ticks>>

PredictWebcam == PredictFrom(Results)

----------------------------------------------------------------------------
(* The render loop *)

\* Mutant of Integrate: the target is read for the first particle alone
IntegrateTorn(ps, m, t, dt) ==
    [i \in DOMAIN ps |-> Update(ps[i], m, IF i = 1 THEN t ELSE Null, dt)]

\* particles.forEach(p => p.update(delta))
Integrate(ps, m, t, dt) == [i \in DOMAIN ps |-> Update(ps[i], m, t, dt)]

\* animate, for the first n render ticks
AnimateUpTo(n) ==
    /\ animateQueued
    /\ ticks < n
    /\ animateQueued' = TRUE
    /\ \E dt \in Deltas : particles' = Integrate(particles, mode, targetPhoto, dt)
    /\ ticks' = ticks + 1
    /\ lastOp' = "animate"
    /\ UNCHANGED <<mode, targetPhoto, handRotation, isLoaded, loading, uploads,
                   visionPc, handLandmarker, predictQueued, loaded, videoTime,
                   lastVideoTime, det>>

Animate == AnimateUpTo(MaxTicks)

----------------------------------------------------------------------------

Next ==
    \/ FileChange
    \/ TextureLoaded
    \/ InitVision
    \/ LoadedData
    \/ VideoFrame
    \/ PredictWebcam
    \/ Animate

Spec == Init /\ [][Next]_vars

----------------------------------------------------------------------------
(* The integrator's specification: the program from the state in which     *)
(* initVision has succeeded and loadeddata has fired (a state Spec         *)
(* reaches), over a longer horizon of render ticks and video frames, with  *)
(* one hand for each of the gestures PINCH, FIST and OPEN.                 *)

GestureResults ==
    {<<MkHand(Pt(0, 3), 25, Pt(50, 50))>>,
     <<MkHand(Pt(3, 4), 20, Pt(50, 50))>>,
     <<MkHand(Pt(3, 4), 45, Pt(50, 50))>>}

MotionInit ==
    /\ mode = "TREE"
    /\ targetPhoto = Null
    /\ handRotation = [x |-> 0, y |-> 0]
    /\ isLoaded = TRUE
    /\ particles \in InitialPopulations
    /\ loading = 0
    /\ uploads = 0
    /\ visionPc = "ready"
    /\ handLandmarker = TRUE
    /\ predictQueued = TRUE
    /\ loaded = TRUE
    /\ videoTime = 0
    /\ lastVideoTime = -1
    /\ animateQueued = TRUE
    /\ ticks = 0
    /\ lastOp = "loadeddata"
    /\ det = NotRun

MotionFrame == VideoFrameUpTo(MotionFrames)

MotionPredict == PredictFrom(GestureResults)

MotionAnimate == AnimateUpTo(MotionTicks)

MotionNext ==
    \/ FileChange
    \/ TextureLoaded
    \/ MotionFrame
    \/ MotionPredict
    \/ MotionAnimate

MotionSpec == MotionInit /\ [][MotionNext]_vars

\* The render loop is driven by requestAnimationFrame, which calls a queued
\* callback at the next display refresh
FairSpec == Spec /\ WF_vars(Animate)

----------------------------------------------------------------------------
(* Properties *)

\* The step is a detection tick that found a hand
HandTick == lastOp' = "predict" /\ det'.kind = "hand"

IsPhoto(ps, id) == \E i \in 1..Len(ps) : ps[i].id = id /\ ps[i].type = "PHOTO"

\* C1: focusTarget is set only while mode == FOCUS: whenever the mode leaves
\* FOCUS (FIST, OPEN, or an upload forcing TREE) the target is cleared in the
\* same step.
C1_TargetOnlyInFocus == targetPhoto # Null => mode = "FOCUS"

\* C2: the layout generator calculatePositions runs exactly once on every
\* object, the photos registered through addPhotoToScene included.
C2_LayoutComputedOnce == \A i \in 1..Len(particles) : particles[i].calls = 1

\* C3: a detection tick with a hand classifies by strict comparisons in
\* priority order: pinchDistance < 0.05 is PINCH (mode FOCUS) whatever
\* avgTipDistance is; else avgTipDistance < 0.25 is FIST (mode TREE); else
\* avgTipDistance > 0.4 is OPEN (mode SCATTER); else AMBIGUOUS (mode kept).
\* tipSum is four times avgTipDistance, in hundredths.
C3_ClassifierThresholds ==
    [][HandTick =>
        LET p == det'.pinchDist
            a4 == det'.tipSum
        IN  /\ p < 5 => det'.gesture = "PINCH" /\ mode' = "FOCUS"
            /\ (p >= 5 /\ a4 < 4 * 25) => det'.gesture = "FIST" /\ mode' = "TREE"
            /\ (p >= 5 /\ a4 >= 4 * 25 /\ a4 > 4 * 40) =>
                    det'.gesture = "OPEN" /\ mode' = "SCATTER"
            /\ (p >= 5 /\ a4 >= 4 * 25 /\ a4 <= 4 * 40) =>
                    det'.gesture = "AMBIGUOUS" /\ mode' = mode]_vars

\* C3 witness: a hand exactly on the pinch and fist boundaries, seen in
\* SCATTER mode, was classified AMBIGUOUS and left the mode alone.
C3_Witness ==
    /\ lastOp = "predict" /\ det.kind = "hand"
    /\ det.pinchDist = 5 /\ det.tipSum = 100
    /\ det.gesture = "AMBIGUOUS"
    /\ det.prevMode = "SCATTER" /\ mode = "SCATTER"

\* C4: transitions are level-triggered: after a detection tick classified
\* FIST the mode is TREE and the target unset, after OPEN the mode is SCATTER
\* and the target unset, after PINCH the mode is FOCUS, from every prior mode
\* and target.
C4_LevelTriggered ==
    [][HandTick =>
        /\ det'.gesture = "FIST" => mode' = "TREE" /\ targetPhoto' = Null
        /\ det'.gesture = "OPEN" => mode' = "SCATTER" /\ targetPhoto' = Null
        /\ det'.gesture = "PINCH" => mode' = "FOCUS"]_vars

\* C4 witness: a FIST seen in FOCUS mode with a target assigned.
C4_Witness ==
    /\ lastOp = "predict" /\ det.gesture = "FIST"
    /\ det.prevMode = "FOCUS" /\ det.prevTarget # Null
    /\ mode = "TREE" /\ targetPhoto = Null

\* C5: no re-roll: once a PINCH detection tick has left the mode FOCUS with a
\* target assigned, further PINCH detection ticks, with render ticks and
\* skipped detection calls in between, keep the mode FOCUS and the same target.
C5_NoReroll ==
    [][(/\ det.gesture = "PINCH" /\ mode = "FOCUS" /\ targetPhoto # Null
        /\ \/ lastOp' \in {"animate", "skip"}
           \/ HandTick /\ det'.gesture = "PINCH")
       => mode' = "FOCUS" /\ targetPhoto' = targetPhoto]_vars

\* C5 witness: a second PINCH with two photos to choose from kept the target.
C5_Witness ==
    /\ lastOp = "predict" /\ det.gesture = "PINCH"
    /\ det.prevMode = "FOCUS" /\ det.prevTarget # Null
    /\ Len(Photos(particles)) >= 2
    /\ mode = "FOCUS" /\ targetPhoto = det.prevTarget

\* C6: a PINCH detection tick with the target unset assigns a PHOTO of the
\* population when there is one, and otherwise leaves the target unset with
\* mode FOCUS; the target is always unset or a PHOTO of the population.
C6_PinchPicksPhoto ==
    [][/\ targetPhoto' # Null => IsPhoto(particles', targetPhoto')
       /\ (HandTick /\ det'.gesture = "PINCH" /\ targetPhoto = Null) =>
             IF \E i \in 1..Len(particles) : particles[i].type = "PHOTO"
             THEN targetPhoto' # Null /\ mode' = "FOCUS"
             ELSE targetPhoto' = Null /\ mode' = "FOCUS"]_vars

\* C6 witness: a PINCH that found the target unset and assigned a photo,
\* with an object that is no photo in the population.
C6_Witness ==
    /\ lastOp = "predict" /\ det.gesture = "PINCH" /\ det.prevTarget = Null
    /\ targetPhoto # Null /\ IsPhoto(particles, targetPhoto)
    /\ \E i \in 1..Len(particles) : particles[i].type # "PHOTO"

\* C7: a detection tick on a new frame without a hand changes neither the
\* mode, nor the target, nor the pointer signal.
C7_NoHandNoChange ==
    [][(lastOp' = "predict" /\ det'.kind = "nohand") =>
          /\ mode' = mode
          /\ targetPhoto' = targetPhoto
          /\ handRotation' = handRotation]_vars

\* C7 witness: no hand was seen while in FOCUS with a target and a pointer
\* signal away from its default.
C7_Witness ==
    /\ lastOp = "predict" /\ det.kind = "nohand"
    /\ mode = "FOCUS" /\ targetPhoto # Null
    /\ handRotation # [x |-> 0, y |-> 0]

\* C8: a detection tick with a hand sets the pointer signal from the palm
\* landmark, (palmX - 0.5) * 2 and (palmY - 0.5) * 1, whatever the gesture;
\* an AMBIGUOUS gesture leaves the mode and the target alone.
C8_PointerAlwaysUpdated ==
    [][HandTick =>
        /\ handRotation'.y = (det'.palm.x - 50) * 2
        /\ handRotation'.x = (det'.palm.y - 50) * 1
        /\ det'.gesture = "AMBIGUOUS" =>
              mode' = mode /\ targetPhoto' = targetPhoto]_vars

\* C8 witness: an AMBIGUOUS hand with the palm off centre, seen in FOCUS.
C8_Witness ==
    /\ lastOp = "predict" /\ det.gesture = "AMBIGUOUS"
    /\ det.palm = Pt(70, 30)
    /\ handRotation = [x |-> -20, y |-> 40]
    /\ det.prevMode = "FOCUS" /\ mode = "FOCUS" /\ targetPhoto # Null

\* C9: registering a photo appends exactly one PHOTO at the end of the
\* population and leaves the mode TREE; no step removes or reorders objects.
C9_UploadAppends ==
    [][/\ Len(particles') >= Len(particles)
       /\ \A i \in 1..Len(particles) :
             /\ particles'[i].id = particles[i].id
             /\ particles'[i].type = particles[i].type
       /\ lastOp' = "upload" =>
             /\ Len(particles') = Len(particles) + 1
             /\ particles'[Len(particles')].type = "PHOTO"
             /\ \A i \in 1..Len(particles) :
                   particles[i].id # particles'[Len(particles')].id
             /\ mode' = "TREE"]_vars

\* C9 witness: a photo registered while a PINCH had the mode at FOCUS.
C9_Witness ==
    /\ lastOp = "upload" /\ det.gesture = "PINCH"
    /\ mode = "TREE"
    /\ Len(particles) = NumOrnaments + 2
    /\ particles[Len(particles)].type = "PHOTO"

\* C10: when initVision fails, the detection loop never runs: the mode stays
\* TREE, the target unset, the pointer signal at its default, and the render
\* loop stays queued and goes on ticking (here: up to the MaxTicks horizon).
C10_VisionFailureKeepsRendering ==
    /\ [](visionPc = "failed" =>
             /\ mode = "TREE" /\ targetPhoto = Null
             /\ handRotation = [x |-> 0, y |-> 0]
             /\ det = NotRun
             /\ animateQueued)
    /\ (visionPc = "failed") ~> (ticks = MaxTicks)

\* C11: a call of predictWebcam whose video timestamp has not advanced runs
\* neither the classifier nor the controller and changes no state, yet
\* re-queues itself; a call on a new timestamp records it, so the recorded
\* timestamps strictly increase and each frame is classified at most once.
C11_DedupGuard ==
    [][lastOp' \in {"skip", "predict"} =>
          /\ lastOp' = "predict" <=> videoTime # lastVideoTime
          /\ predictQueued'
          /\ lastOp' = "skip" =>
                UNCHANGED <<mode, targetPhoto, handRotation, isLoaded, particles,
                            loading, uploads, visionPc, handLandmarker, loaded,
                            videoTime, lastVideoTime, animateQueued, ticks, det>>
          /\ lastOp' = "predict" =>
                lastVideoTime' = videoTime /\ lastVideoTime' > lastVideoTime]_vars

\* C11 witness: a call skipped on the frame on which a PINCH was classified,
\* after an earlier frame.
C11_Witness ==
    /\ lastOp = "skip" /\ predictQueued
    /\ videoTime = lastVideoTime /\ videoTime > 0
    /\ det.gesture = "PINCH" /\ mode = "FOCUS"

\* C10 witness: the camera was refused after the model had loaded, a photo
\* was uploaded, and the render loop ran on.
C10_Witness ==
    /\ visionPc = "failed" /\ handLandmarker
    /\ lastOp = "animate" /\ ticks = MaxTicks
    /\ Len(particles) = NumOrnaments + 2

\* C12: ticks never interleave inside one another: one integration tick
\* updates every object against the same mode and the same target, which it
\* does not change, and the integration tick that follows a detection tick
\* finds the mode and the target of that detection together (PINCH: FOCUS
\* with a photo; FIST: TREE with none; OPEN: SCATTER with none).
C12_NoTornState ==
    [][lastOp' = "animate" =>
          /\ mode' = mode /\ targetPhoto' = targetPhoto
          /\ Len(particles') = Len(particles)
          /\ \E dt \in Deltas : \A i \in 1..Len(particles) :
                particles'[i] = Update(particles[i], mode, targetPhoto, dt)
          /\ (lastOp = "predict" /\ det.kind = "hand") =>
                /\ det.gesture = "PINCH" =>
                      mode = "FOCUS" /\ IsPhoto(particles, targetPhoto)
                /\ det.gesture = "FIST" => mode = "TREE" /\ targetPhoto = Null
                /\ det.gesture = "OPEN" => mode = "SCATTER" /\ targetPhoto = Null]_vars

\* C12 witness: the integration tick after a PINCH enlarged the target and
\* no other object.
C12_Witness ==
    /\ lastOp = "animate" /\ det.gesture = "PINCH" /\ mode = "FOCUS"
    /\ \E i \in 1..Len(particles) :
          /\ particles[i].id = targetPhoto
          /\ particles[i].scale > particles[i].baseScale
    /\ \E i \in 1..Len(particles) :
          /\ particles[i].type = "PHOTO" /\ particles[i].id # targetPhoto
          /\ particles[i].scale = particles[i].baseScale

\* The position an integration tick in mode m with target t steers p to
SteeredTo(p, m, t) ==
    CASE m = "TREE"    -> p.treePos
      [] m = "SCATTER" -> p.scatterPos
      [] m = "FOCUS"   -> IF p.id = t THEN 35 * Unit ELSE (3 * p.scatterPos) \div 2

\* The distance of p from that position
Away(p, m, t) == Abs(SteeredTo(p, m, t) - p.position)

\* b lies on the way from a to c, ends included
Between(a, b, c) == (a <= b /\ b <= c) \/ (c <= b /\ b <= a)

C14_FullSpin ==
    [][(lastOp' = "animate" /\ mode = "SCATTER") =>
          \A i \in 1..Len(particles) :
             LET p == particles[i]
                 q == particles'[i]
             IN  /\ q.rotation.x = p.rotation.x + p.scatterVel.x
                 /\ q.rotation.y = p.rotation.y + p.scatterVel.y
                 /\ q.rotation.z = p.rotation.z + p.scatterVel.z
                 /\ 20 * (p.scatterPos - q.position) = 19 * (p.scatterPos - p.position)]_vars

\* b is one smoothing step (factor 0.05) from a toward goal
Smoothed(a, b, goal) == 20 * (b - a) = goal - a

\* C15: an integration tick in FOCUS mode smooths the object that is the
\* target toward the on-camera position, 4.5 times its baseScale and the
\* identity orientation, and every other object (all of them when no target
\* is set) toward 1.5 times its scatterPos, its baseScale and the identity
\* orientation.
C15_FocusTick ==
    [][(lastOp' = "animate" /\ mode = "FOCUS") =>
          \A i \in 1..Len(particles) :
             LET p == particles[i]
                 q == particles'[i]
             IN  /\ p.id = targetPhoto =>
                       /\ Smoothed(p.position, q.position, 35 * Unit)
                       /\ Smoothed(2 * p.scale, 2 * q.scale, 9 * p.baseScale)
                 /\ p.id # targetPhoto =>
                       /\ Smoothed(2 * p.position, 2 * q.position, 3 * p.scatterPos)
                       /\ Smoothed(p.scale, q.scale, p.baseScale)
                 /\ Smoothed(p.rotation.x, q.rotation.x, 0)
                 /\ Smoothed(p.rotation.y, q.rotation.y, 0)
                 /\ Smoothed(p.rotation.z, q.rotation.z, 0)]_vars

\* C15 witness: after a FOCUS tick the target is enlarged and nearer the
\* camera position than where it started, and another object is pushed out
\* beyond its scatterPos at its baseScale.
C15_Witness ==
    /\ lastOp = "animate" /\ mode = "FOCUS"
    /\ \E i \in 1..Len(particles) :
          /\ particles[i].id = targetPhoto
          /\ particles[i].scale > particles[i].baseScale
          /\ particles[i].rotation.y # 0
    /\ \E j \in 1..Len(particles) :
          /\ particles[j].id # targetPhoto
          /\ particles[j].position > particles[j].scatterPos
          /\ particles[j].scale = particles[j].baseScale

\* C16: an integration tick in SCATTER mode leaves every object's scale as
\* it was, so an enlarged object stays enlarged while the mode stays SCATTER;
\* a tick in TREE or FOCUS mode moves every scale one smoothing step toward
\* its target, baseScale for every object but the focus target.
C16_ScatterKeepsScale ==
    [][lastOp' = "animate" =>
          \A i \in 1..Len(particles) :
             LET p == particles[i]
                 q == particles'[i]
             IN  /\ mode = "SCATTER" => q.scale = p.scale
                 /\ (mode # "SCATTER" /\ ~(mode = "FOCUS" /\ p.id = targetPhoto)) =>
                       Smoothed(p.scale, q.scale, p.baseScale)]_vars

\* C16 witness: one FOCUS tick enlarged the target by 1/20 of the way to
\* 4.5 times its baseScale, and it has that very scale after two SCATTER
\* ticks.
C16_Witness ==
    /\ lastOp = "animate" /\ mode = "SCATTER" /\ ticks = 3
    /\ \E i \in 1..Len(particles) :
          /\ 40 * (particles[i].scale - particles[i].baseScale) = 7 * particles[i].baseScale
          /\ particles[i].position # particles[i].scatterPos

====
